---- MODULE Spec2Model ----
(***************************************************************************)
(* State-machine model of the FS-ETL backend (FastAPI service):            *)
(*   modules/validator.py  - schema previewer                              *)
(*   modules/generator.py  - LLM backend selection, fence stripping        *)
(*   modules/executor.py   - temp file + child process + stderr filter     *)
(*   main.py               - the three POST handlers                       *)
(* Python strings are modelled as sequences of one-character strings, so   *)
(* that startswith / endswith / in / lower / strip / splitlines are        *)
(* computed character by character, as the interpreter computes them.      *)
(***************************************************************************)
EXTENDS Integers, Sequences, FiniteSets, TLC

VARIABLES
    pc,             \* position of the request handler / callee being run
    \* ---- modules/validator.py ----
    db_type,        \* argument of validate_db_connection
    conn,           \* the driver connection: "none", "open", "closed"
    opened,         \* number of connections opened by the current call
    netAccess,      \* number of driver calls (connect / execute) attempted
    qdata,          \* (column_names, result) gathered so far
    vdc,            \* return value of validate_db_connection
    status,         \* status string returned by validate_and_fetch_schema
    preview,        \* preview returned by validate_and_fetch_schema
    caller,         \* where the previewer returns to
    \* ---- modules/executor.py ----
    tempFile,       \* "none", "open", "closed", "deleted"
    events,         \* order of the executor's externally visible events
    child,          \* captured result of subprocess.run
    caught,         \* TRUE once the except clause of run_etl_script ran
    ret,            \* (stdout, stderr) returned by run_etl_script
    unlinkOutcome,  \* "none", "ok", "failed"
    \* ---- modules/generator.py ----
    env,            \* importable clients and API keys of the process
    LANGCHAIN_AVAILABLE,
    USE_OPENAI,     \* "undefined", TRUE or FALSE (module global)
    llm,            \* what get_llm produced for the current request
    prompt,         \* the two preview strings embedded in the prompt
    calls,          \* per-request counters: previews, generator, LLM
    order,          \* order of the calls made by generate_code
    src,            \* (status, preview) of the source side
    target_type,    \* request.target.db_type
    text,           \* input of strip_code_block / LLM response content
    stripped,       \* results of the successive strip_code_block calls
    \* ---- main.py ----
    resp            \* the HTTP response of the current request

valVars  == <<db_type, conn, opened, netAccess, qdata, vdc, status, preview, caller>>
exeVars  == <<tempFile, events, child, caught, ret, unlinkOutcome>>
genVars  == <<env, LANGCHAIN_AVAILABLE, USE_OPENAI, llm, prompt, calls, order, src,
             target_type, text, stripped>>
vars     == <<pc, valVars, exeVars, genVars, resp>>

----------------------------------------------------------------------------
(* Bounds *)

\* number of chunks a captured child stderr is assembled from
MaxChunks == 3
\* number of pieces an LLM response is assembled from
MaxPieces == 4

----------------------------------------------------------------------------
(* String literals of the source, as character sequences *)

\* two characters the module's string syntax cannot spell, by code point
Backtick == "U+0060"
CrossMark == "U+274C"

PostgreSQL ==
    <<"P", "o", "s", "t", "g", "r", "e", "S", "Q", "L">>
MySQL ==
    <<"M", "y", "S", "Q", "L">>
MSSQL ==
    <<"M", "S", "S", "Q", "L">>
MongoDB ==
    <<"M", "o", "n", "g", "o", "D", "B">>
SQLite ==
    <<"S", "Q", "L", "i", "t", "e">>
ErrorWord ==
    <<"E", "r", "r", "o", "r">>
ErrorPrefix ==
    <<"E", "r", "r", "o", "r", ":", " ">>
ConnectedTo ==
    <<"C", "o", "n", "n", "e", "c", "t", "e", "d", " ", "t", "o", " ">>
Successfully ==
    <<" ", "s", "u", "c", "c", "e", "s", "s", "f", "u", "l", "l", "y", "!">>
CouldntFetch ==
    <<"C", "o", "n", "n", "e", "c", "t", "e", "d", " ", "b", "u", "t", " ",
      "c", "o", "u", "l", "d", "n", "'", "t", " ", "f", "e", "t", "c", "h",
      " ", "s", "c", "h", "e", "m", "a">>
UnsupportedPrefix ==
    <<"U", "n", "s", "u", "p", "p", "o", "r", "t", "e", "d", " ", "d", "a",
      "t", "a", "b", "a", "s", "e", " ", "t", "y", "p", "e", ":", " ">>
NumpyMarker ==
    <<"n", "u", "m", "p", "y", "/", "_", "c", "o", "r", "e", "/", "g", "e",
      "t", "l", "i", "m", "i", "t", "s", ".", "p", "y">>
errorLower ==
    <<"e", "r", "r", "o", "r">>
ScriptErrorMarker ==
    <<CrossMark, " ", "E", "r", "r", "o", "r", " ", "r", "u", "n", "n", "i", "n",
      "g", " ", "s", "c", "r", "i", "p", "t", ":", " ">>
FencePython ==
    <<Backtick, Backtick, Backtick, "p", "y", "t", "h", "o", "n">>
Fence ==
    <<Backtick, Backtick, Backtick>>
NoPreview ==
    <<"N", "o", " ", "p", "r", "e", "v", "i", "e", "w", " ", "a", "v", "a",
      "i", "l", "a", "b", "l", "e">>
ImportErrorMsg ==
    <<"N", "e", "i", "t", "h", "e", "r", " ", "l", "a", "n", "g", "c", "h",
      "a", "i", "n", "_", "g", "o", "o", "g", "l", "e", "_", "g", "e", "n",
      "a", "i", " ", "n", "o", "r", " ", "l", "a", "n", "g", "c", "h", "a",
      "i", "n", "_", "o", "p", "e", "n", "a", "i", " ", "i", "s", " ", "a",
      "v", "a", "i", "l", "a", "b", "l", "e", ".", " ", "P", "l", "e", "a",
      "s", "e", " ", "i", "n", "s", "t", "a", "l", "l", " ", "o", "n", "e",
      " ", "o", "f", " ", "t", "h", "e", "m", ".">>
OpenaiKeyMsg ==
    <<"O", "P", "E", "N", "A", "I", "_", "A", "P", "I", "_", "K", "E", "Y",
      " ", "e", "n", "v", "i", "r", "o", "n", "m", "e", "n", "t", " ", "v",
      "a", "r", "i", "a", "b", "l", "e", " ", "i", "s", " ", "r", "e", "q",
      "u", "i", "r", "e", "d", " ", "b", "u", "t", " ", "n", "o", "t", " ",
      "s", "e", "t">>
GoogleKeyMsg ==
    <<"G", "O", "O", "G", "L", "E", "_", "A", "P", "I", "_", "K", "E", "Y",
      " ", "e", "n", "v", "i", "r", "o", "n", "m", "e", "n", "t", " ", "v",
      "a", "r", "i", "a", "b", "l", "e", " ", "i", "s", " ", "r", "e", "q",
      "u", "i", "r", "e", "d", " ", "b", "u", "t", " ", "n", "o", "t", " ",
      "s", "e", "t">>
NameErrorMsg ==
    <<"n", "a", "m", "e", " ", "'", "C", "h", "a", "t", "G", "o", "o", "g",
      "l", "e", "G", "e", "n", "e", "r", "a", "t", "i", "v", "e", "A", "I",
      "'", " ", "i", "s", " ", "n", "o", "t", " ", "d", "e", "f", "i", "n",
      "e", "d">>
CodeGenErrorPrefix ==
    <<"C", "o", "d", "e", " ", "g", "e", "n", "e", "r", "a", "t", "i", "o",
      "n", " ", "e", "r", "r", "o", "r", ":", " ">>

----------------------------------------------------------------------------
(* Python str operations *)

\* characters str.strip() / lstrip() / rstrip() remove
Whitespace == {" ", "\n", "\r", "\t", "\f"}

\* line boundaries of str.splitlines() that occur in the modelled alphabet
LineBreaks == {"\n", "\r", "\f"}

UpperLetters ==
    <<"A", "B", "C", "D", "E", "F", "G", "H", "I", "J", "K", "L", "M",
      "N", "O", "P", "Q", "R", "S", "T", "U", "V", "W", "X", "Y", "Z">>
LowerLetters ==
    <<"a", "b", "c", "d", "e", "f", "g", "h", "i", "j", "k", "l", "m",
      "n", "o", "p", "q", "r", "s", "t", "u", "v", "w", "x", "y", "z">>

LowerChar(c) ==
    IF \E i \in 1..Len(UpperLetters) : UpperLetters[i] = c
    THEN LowerLetters[CHOOSE i \in 1..Len(UpperLetters) : UpperLetters[i] = c]
    ELSE c

\* str.lower()
Lower(s) == [i \in 1..Len(s) |-> LowerChar(s[i])]

\* s[i:]
DropFirst(s, n) == IF n >= Len(s) THEN <<>> ELSE SubSeq(s, n + 1, Len(s))

\* s[:-n]
DropLast(s, n) == IF n >= Len(s) THEN <<>> ELSE SubSeq(s, 1, Len(s) - n)

\* s.startswith(p)
StartsWith(s, p) == Len(p) <= Len(s) /\ SubSeq(s, 1, Len(p)) = p

\* s.endswith(p)
EndsWith(s, p) ==
    Len(p) <= Len(s) /\ SubSeq(s, Len(s) - Len(p) + 1, Len(s)) = p

\* sub in s
Contains(s, sub) ==
    \E i \in 0..(Len(s) - Len(sub)) : SubSeq(s, i + 1, i + Len(sub)) = sub

\* s.lstrip(): drop the longest all-whitespace prefix
LStrip(s) ==
    LET black == {i \in 1..Len(s) : s[i] \notin Whitespace}
    IN  IF black = {} THEN <<>>
        ELSE SubSeq(s, CHOOSE i \in black : \A j \in black : i <= j, Len(s))

\* s.rstrip(): drop the longest all-whitespace suffix
RStrip(s) ==
    LET black == {i \in 1..Len(s) : s[i] \notin Whitespace}
    IN  IF black = {} THEN <<>>
        ELSE SubSeq(s, 1, CHOOSE i \in black : \A j \in black : i >= j)

\* str.strip()
Strip(s) == RStrip(LStrip(s))

\* str.splitlines(): every boundary ends a line, "\r\n" is one boundary, and
\* what follows the last boundary is a line only when it is not empty
SplitLines(s) ==
    LET starts == {i \in 1..Len(s) :
                      /\ s[i] \in LineBreaks
                      /\ ~(s[i] = "\n" /\ i > 1 /\ s[i - 1] = "\r")}
        n == Cardinality(starts)
        nth(k) == CHOOSE i \in starts : Cardinality({j \in starts : j < i}) = k - 1
        width(i) == IF s[i] = "\r" /\ i < Len(s) /\ s[i + 1] = "\n" THEN 2 ELSE 1
        from(k) == IF k = 1 THEN 1 ELSE nth(k - 1) + width(nth(k - 1))
        rest == IF n = 0 THEN s ELSE DropFirst(s, nth(n) + width(nth(n)) - 1)
        ended == [k \in 1..n |-> SubSeq(s, from(k), nth(k) - 1)]
    IN  IF rest = <<>> THEN ended ELSE Append(ended, rest)

\* sep.join(lines)
RECURSIVE Join(_, _)
Join(lines, sep) ==
    IF lines = <<>> THEN <<>>
    ELSE IF Len(lines) = 1 THEN lines[1]
    ELSE lines[1] \o sep \o Join(Tail(lines), sep)

\* SelectLines with the filter condition lost: every line is kept
SelectLinesKeepAll(lines, marker) == lines

\* [line for line in lines if marker not in line]
SelectLines(lines, marker) ==
    LET keep(line) == ~Contains(line, marker)
    IN  SelectSeq(lines, keep)

\* all concatenations of at most n elements of the set of strings S
RECURSIVE Concats(_, _)
Concats(S, n) ==
    IF n = 0 THEN {<<>>}
    ELSE LET shorter == Concats(S, n - 1)
         IN  shorter \cup {a \o b : a \in shorter, b \in S}

----------------------------------------------------------------------------
(* Inputs the environment supplies *)

\* db_type values of a request: the five supported tags and others
SupportedTypes == {PostgreSQL, MySQL, MSSQL, MongoDB, SQLite}
OtherTypes ==
    { <<"s", "q", "l", "i", "t", "e">>, <<"O", "r", "a", "c", "l", "e">>,
      <<>>, ErrorWord }
DbTypes == SupportedTypes \cup OtherTypes

\* the tables / collections a preview reads: their columns in SELECT * order,
\* and which of them are generated columns
Tables ==
    { [columns |-> <<"id">>, generated |-> {}],
      [columns |-> <<"id", "name">>, generated |-> {}],
      [columns |-> <<"id", "up">>, generated |-> {"up"}] }

\* db_type values of the /generate-code requests
GenDbTypes == {SQLite, MongoDB, <<"O", "r", "a", "c", "l", "e">>}

\* pieces an LLM response is made of
FencePieces == {FencePython, Fence, <<Backtick>>, <<"\n">>, <<"x">>}

StripTexts == Concats(FencePieces, MaxPieces)

\* response.content of the LLM calls of the /generate-code requests
LlmTexts ==
    { FencePython \o <<"\n", "x", "\n">> \o Fence, <<"x">>, <<>> }

\* which clients can be imported and which keys are set, per process
Envs == [google : BOOLEAN, openai : BOOLEAN,
         GOOGLE_API_KEY : BOOLEAN, OPENAI_API_KEY : BOOLEAN]

\* LIMIT 2 / TOP 2 / .limit(2)
RowLimit == 2

\* str(e) of the exceptions drivers, the OS and the LLM client raise
ExcMsgs == { <<>>, <<"E", "r", "r", "n", "o", " ", "2">> }

\* pieces a child's captured stderr is made of
StderrChunks ==
    { <<"\n">>, <<"\r">>, <<" ">>, <<"x">>, ErrorWord,
      <<"e", "R", "R", "O", "R">>, NumpyMarker }

ChildStderrs == Concats(StderrChunks, MaxChunks)

ChildStdouts == { <<>>, ErrorWord, <<" ", "h", "i", "\n">> }

ExitCodes == {0, 1}

----------------------------------------------------------------------------
(* Values of variables that hold nothing yet *)

NoTable  == [columns |-> <<>>, generated |-> {}]
NoData   == [columns |-> <<>>, rows |-> <<>>, schema |-> NoTable]
NoVdc    == [success |-> FALSE, kind |-> "none", msg |-> <<>>, data |-> NoData]
NoChild  == [stdout |-> <<>>, stderr |-> <<>>, returncode |-> 0]
NoRet    == [stdout |-> <<>>, stderr |-> <<>>]
NoResp   == [code |-> 0, body |-> "none"]
EmptyList == [kind |-> "list", items |-> <<>>]
NoCalls  == [preview |-> 0, generator |-> 0, llm |-> 0]
NoPrompt == [built |-> FALSE, src |-> <<>>, tgt |-> <<>>]
NoLlm    == [ok |-> FALSE, backend |-> "none", exc |-> "none", msg |-> <<>>]
NoSrc    == [status |-> <<>>, preview |-> EmptyList]

ValIdle ==
    /\ db_type = <<>> /\ conn = "none" /\ opened = 0 /\ netAccess = 0
    /\ qdata = NoData /\ vdc = NoVdc /\ status = <<>> /\ preview = EmptyList
    /\ caller = "none"

ExeIdle ==
    /\ tempFile = "none" /\ events = <<>> /\ child = NoChild
    /\ caught = FALSE /\ ret = NoRet /\ unlinkOutcome = "none"

GenIdle ==
    /\ llm = NoLlm /\ prompt = NoPrompt /\ calls = NoCalls
    /\ order = <<>> /\ src = NoSrc /\ target_type = <<>>
    /\ text = <<>> /\ stripped = <<>>

----------------------------------------------------------------------------
(* modules/validator.py : validate_db_connection *)

\* the if / elif chain on db_type: exact, case-sensitive comparisons
IsSupportedIgnoreCase(t) == \E u \in SupportedTypes : Lower(t) = Lower(u)

IsSupported(t) ==
    t = PostgreSQL \/ t = MySQL \/ t = MSSQL \/ t = MongoDB \/ t = SQLite

\* the first n rows of SELECT * on a table: one value per column
TableRows(tbl, n) ==
    [i \in 1..n |-> [j \in 1..Len(tbl.columns) |-> <<"v", i, j>>]]

\* the names PRAGMA table_info lists: SQLite leaves generated columns out
TableInfo(tbl) ==
    LET normal(c) == c \notin tbl.generated
    IN  SelectSeq(tbl.columns, normal)

\* column_names as the branch of db_type obtains them right after the data
\* query: cursor.description (PostgreSQL, MySQL, MSSQL), the keys of the first
\* document (MongoDB), nothing yet (SQLite asks with a second query)
NamesAfterQuery(t, tbl, n) ==
    IF t = SQLite THEN <<>>
    ELSE IF t = MongoDB THEN (IF n > 0 THEN tbl.columns ELSE <<>>)
    ELSE tbl.columns

\* except Exception as e: return False, str(e)
VdcHandler(e) ==
    /\ vdc' = [success |-> FALSE, kind |-> "str", msg |-> e, data |-> NoData]
    /\ pc' = "vfs_format"

\* entry of validate_and_fetch_schema(t, creds), returning to `back`
CallPreviewer(t, back) ==
    /\ db_type' = t
    /\ caller' = back
    /\ conn' = "none" /\ opened' = 0 /\ netAccess' = 0
    /\ qdata' = NoData /\ vdc' = NoVdc
    /\ status' = <<>> /\ preview' = EmptyList
    /\ pc' = "vdc_dispatch"

\* the dispatch; the else branch returns without touching any driver
Dispatch ==
    /\ pc = "vdc_dispatch"
    /\ IF IsSupported(db_type)
       THEN pc' = "vdc_connect" /\ UNCHANGED vdc
       ELSE /\ vdc' = [success |-> FALSE, kind |-> "str",
                       msg |-> UnsupportedPrefix \o db_type, data |-> NoData]
            /\ pc' = "vfs_format"
    /\ UNCHANGED <<db_type, conn, opened, netAccess, qdata, status, preview,
                   caller, exeVars, genVars, resp>>

\* psycopg2.connect / pymysql.connect / pyodbc.connect / MongoClient /
\* sqlite3.connect
Connect ==
    /\ pc = "vdc_connect"
    /\ netAccess' = netAccess + 1
    /\ \/ /\ conn' = "open" /\ opened' = opened + 1
          /\ pc' = "vdc_query"
          /\ UNCHANGED vdc
       \/ /\ \E e \in ExcMsgs : VdcHandler(e)
          /\ UNCHANGED <<conn, opened>>
    /\ UNCHANGED <<db_type, qdata, status, preview, caller,
                   exeVars, genVars, resp>>

\* cursor(), execute("SELECT ... LIMIT 2"), fetchall() / find().limit(2)
Query ==
    /\ pc = "vdc_query"
    /\ netAccess' = netAccess + 1
    /\ \/ /\ \E tbl \in Tables, n \in 0..RowLimit :
                qdata' = [columns |-> NamesAfterQuery(db_type, tbl, n),
                          rows |-> TableRows(tbl, n),
                          schema |-> tbl]
          /\ pc' = IF db_type = SQLite THEN "vdc_columns" ELSE "vdc_close"
          /\ UNCHANGED vdc
       \/ /\ \E e \in ExcMsgs : VdcHandler(e)
          /\ UNCHANGED qdata
    /\ UNCHANGED <<db_type, conn, opened, status, preview, caller,
                   exeVars, genVars, resp>>

\* SQLite only: execute("PRAGMA table_info(...)"), fetchall()
Columns ==
    /\ pc = "vdc_columns"
    /\ netAccess' = netAccess + 1
    /\ \/ /\ qdata' = [qdata EXCEPT !.columns = TableInfo(qdata.schema)]
          /\ pc' = "vdc_close"
          /\ UNCHANGED vdc
       \/ /\ \E e \in ExcMsgs : VdcHandler(e)
          /\ UNCHANGED qdata
    /\ UNCHANGED <<db_type, conn, opened, status, preview, caller,
                   exeVars, genVars, resp>>

\* cursor.close(); connection.close(); return True, (column_names, result);
\* a close call that raises leaves the function through the except clause
Close ==
    /\ pc = "vdc_close"
    /\ \/ /\ conn' = "closed"
          /\ vdc' = [success |-> TRUE, kind |-> "tuple", msg |-> <<>>,
                     data |-> qdata]
          /\ pc' = "vfs_format"
       \/ /\ \E e \in ExcMsgs : VdcHandler(e)
          /\ UNCHANGED conn
    /\ UNCHANGED <<db_type, opened, netAccess, qdata, status, preview, caller,
                   exeVars, genVars, resp>>

----------------------------------------------------------------------------
(* modules/validator.py : validate_and_fetch_schema *)

\* df.to_dict(orient='records'): one mapping column -> value per row
Records(columns, rows) ==
    [i \in 1..Len(rows) |->
        [c \in {columns[j] : j \in 1..Len(columns)} |->
            rows[i][CHOOSE j \in 1..Len(columns) : columns[j] = c]]]

\* f"Connected to {db_type} successfully!"
ConnectedStatus(t) == ConnectedTo \o t \o Successfully

\* f"Error: {result}" and f"Error: {str(e)}"
ErrorStatus(m) == ErrorPrefix \o m

\* pd.DataFrame(data, columns=column_names) and df.to_dict: library calls
\* inside the try block, which may raise, and do raise when a row holds
\* another number of values than there are column names
FrameOutcomes(data) ==
    IF \E i \in 1..Len(data.rows) : Len(data.rows[i]) # Len(data.columns)
    THEN {"raise"}
    ELSE {"ok", "raise"}

\* the body after validate_db_connection returned
Format ==
    /\ pc = "vfs_format"
    /\ IF vdc.success
       THEN IF vdc.kind = "tuple"
            THEN \/ /\ "ok" \in FrameOutcomes(vdc.data)
                    /\ status' = ConnectedStatus(db_type)
                    /\ preview' =
                         [kind |-> "tuple",
                          items |-> <<vdc.data.columns,
                                      Records(vdc.data.columns, vdc.data.rows)>>]
                 \/ \E e \in ExcMsgs :
                       /\ status' = ErrorStatus(e)
                       /\ preview' = EmptyList
            ELSE status' = CouldntFetch /\ preview' = EmptyList
       ELSE status' = ErrorStatus(vdc.msg) /\ preview' = EmptyList
    /\ pc' = caller
    /\ UNCHANGED <<db_type, conn, opened, netAccess, qdata, vdc, caller,
                   exeVars, genVars, resp>>

----------------------------------------------------------------------------
(* main.py : POST /validate *)

\* json.loads(json.dumps(preview, default=str)) of a list of JSON values
JsonRoundTrip(p) == [kind |-> "list", items |-> p.items]

\* not status.startswith("Error")
ValidateSuccess(st) == ~StartsWith(st, ErrorWord)

ReceiveValidate ==
    /\ pc \in {"idle", "done"}
    /\ \E t \in DbTypes : CallPreviewer(t, "val_respond")
    /\ resp' = NoResp
    /\ UNCHANGED <<exeVars, genVars>>

\* the isinstance(preview, list) conversion and the returned dictionary
RespondValidate ==
    /\ pc = "val_respond"
    /\ resp' = [code |-> 200,
                body |-> [success |-> ValidateSuccess(status),
                          message |-> status,
                          preview |-> IF preview.kind = "list"
                                      THEN JsonRoundTrip(preview)
                                      ELSE preview]]
    /\ pc' = "done"
    /\ UNCHANGED <<valVars, exeVars, genVars>>

----------------------------------------------------------------------------
(* modules/executor.py : run_etl_script *)

\* ExeHandler returning the bare str(e), without the error marker
ExeHandlerNoMarker(e) ==
    /\ caught' = TRUE
    /\ ret' = [stdout |-> <<>>, stderr |-> e]
    /\ pc' = "exe_returned"

\* except Exception as e: return "", f"<cross mark> Error running script: {e}"
ExeHandler(e) ==
    /\ caught' = TRUE
    /\ ret' = [stdout |-> <<>>, stderr |-> ScriptErrorMarker \o e]
    /\ pc' = "exe_returned"

\* the generator expression joined with "\n", then .strip()
FilterStderr(s) ==
    Strip(Join(SelectLines(SplitLines(s), NumpyMarker), <<"\n">>))

\* tempfile.NamedTemporaryFile(mode="w", suffix=".py", delete=False)
CreateTemp ==
    /\ pc = "exe_create"
    /\ \/ /\ tempFile' = "open"
          /\ events' = Append(events, "create")
          /\ pc' = "exe_write"
          /\ UNCHANGED <<caught, ret>>
       \/ /\ \E e \in ExcMsgs : ExeHandler(e)
          /\ UNCHANGED <<tempFile, events>>
    /\ UNCHANGED <<child, unlinkOutcome, valVars, genVars, resp>>

\* f.write(code); temp_path = f.name; leaving the with block closes the file
WriteCode ==
    /\ pc = "exe_write"
    /\ tempFile' = "closed"
    /\ \/ /\ events' = events \o <<"write", "close">>
          /\ pc' = "exe_spawn"
          /\ UNCHANGED <<caught, ret>>
       \/ /\ events' = Append(events, "close")
          /\ \E e \in ExcMsgs : ExeHandler(e)
    /\ UNCHANGED <<child, unlinkOutcome, valVars, genVars, resp>>

\* subprocess.run(["python", temp_path], ...): starting the child
Spawn ==
    /\ pc = "exe_spawn"
    /\ \/ /\ events' = Append(events, "spawn")
          /\ pc' = "exe_wait"
          /\ UNCHANGED <<caught, ret>>
       \/ /\ \E e \in ExcMsgs : ExeHandler(e)
          /\ UNCHANGED events
    /\ UNCHANGED <<tempFile, child, unlinkOutcome, valVars, genVars, resp>>

\* subprocess.run: communicate() and wait(); on an exception run() kills and
\* reaps the child before re-raising
Wait ==
    /\ pc = "exe_wait"
    /\ events' = Append(events, "exit")
    /\ \/ /\ \E out \in ChildStdouts, err \in ChildStderrs, rc \in ExitCodes :
                child' = [stdout |-> out, stderr |-> err, returncode |-> rc]
          /\ pc' = "exe_unlink"
          /\ UNCHANGED <<caught, ret>>
       \/ /\ \E e \in ExcMsgs : ExeHandler(e)
          /\ UNCHANGED child
    /\ UNCHANGED <<tempFile, unlinkOutcome, valVars, genVars, resp>>

\* try: os.unlink(temp_path) / except: pass
Unlink ==
    /\ pc = "exe_unlink"
    /\ events' = Append(events, "unlink")
    /\ \/ tempFile' = "deleted" /\ unlinkOutcome' = "ok"
       \/ tempFile' = tempFile /\ unlinkOutcome' = "failed"
    /\ pc' = "exe_filter"
    /\ UNCHANGED <<child, caught, ret, valVars, genVars, resp>>

\* return result.stdout.strip(), filtered_stderr.strip()
FilterReturn ==
    /\ pc = "exe_filter"
    /\ ret' = [stdout |-> Strip(child.stdout),
               stderr |-> FilterStderr(child.stderr)]
    /\ pc' = "exe_returned"
    /\ UNCHANGED <<tempFile, events, child, caught, unlinkOutcome,
                   valVars, genVars, resp>>

----------------------------------------------------------------------------
(* main.py : POST /execute-code *)

\* ExecSuccess without the .lower(): a case-sensitive search
ExecSuccessCaseSensitive(stderr) ==
    stderr = <<>> \/ ~Contains(stderr, errorLower)

\* not stderr or "error" not in stderr.lower()
ExecSuccess(stderr) ==
    stderr = <<>> \/ ~Contains(Lower(stderr), errorLower)

\* the request arrives; run_etl_script(code) is entered
ReceiveExecute ==
    /\ pc \in {"idle", "done"}
    /\ pc' = "exe_create"
    /\ tempFile' = "none" /\ events' = <<>> /\ child' = NoChild
    /\ caught' = FALSE /\ ret' = NoRet /\ unlinkOutcome' = "none"
    /\ resp' = NoResp
    /\ UNCHANGED <<valVars, genVars>>

\* return {"success": ..., "stdout": stdout, "stderr": stderr}
RespondExecute ==
    /\ pc = "exe_returned"
    /\ resp' = [code |-> 200,
                body |-> [success |-> ExecSuccess(ret.stderr),
                          stdout |-> ret.stdout,
                          stderr |-> ret.stderr]]
    /\ pc' = "done"
    /\ UNCHANGED <<exeVars, valVars, genVars>>

----------------------------------------------------------------------------
(* modules/generator.py *)

\* the try / except ImportError cascade run when the module is imported
ImportGenerator ==
    /\ pc = "boot"
    /\ IF env.google
       THEN LANGCHAIN_AVAILABLE' = "True" /\ USE_OPENAI' = USE_OPENAI
       ELSE IF env.openai
            THEN LANGCHAIN_AVAILABLE' = "True" /\ USE_OPENAI' = "True"
            ELSE LANGCHAIN_AVAILABLE' = "False" /\ USE_OPENAI' = "False"
    /\ pc' = "idle"
    /\ UNCHANGED <<env, llm, prompt, calls, order, src, target_type, text,
                   stripped, valVars, exeVars, resp>>

\* 'USE_OPENAI' in locals(): evaluated inside get_llm, whose local namespace
\* holds no such name (USE_OPENAI is a module global)
UseOpenaiInLocals == FALSE

Raised(kind, m) == [ok |-> FALSE, backend |-> "none", exc |-> kind, msg |-> m]
Backend(b)      == [ok |-> TRUE, backend |-> b, exc |-> "none", msg |-> <<>>]

\* get_llm(): the backend object returned or the exception raised
get_llm ==
    IF LANGCHAIN_AVAILABLE # "True"
    THEN Raised("ImportError", ImportErrorMsg)
    ELSE IF UseOpenaiInLocals /\ USE_OPENAI = "True"
         THEN IF ~env.OPENAI_API_KEY
              THEN Raised("ValueError", OpenaiKeyMsg)
              ELSE Backend("openai")
         ELSE IF ~env.GOOGLE_API_KEY
              THEN Raised("ValueError", GoogleKeyMsg)
              ELSE IF env.google
                   THEN Backend("google")
                   ELSE Raised("NameError", NameErrorMsg)

\* strip_code_block that trims whitespace whether or not a fence is there
strip_code_block_trims(t) ==
    LET a == IF StartsWith(t, FencePython) THEN DropFirst(t, Len(FencePython))
             ELSE IF StartsWith(t, Fence) THEN DropFirst(t, Len(Fence))
             ELSE t
        b == LStrip(a)
    IN  IF EndsWith(b, Fence) THEN RStrip(DropLast(b, 3)) ELSE RStrip(b)

\* strip_code_block(text)
strip_code_block(t) ==
    LET a == IF StartsWith(t, FencePython)
             THEN LStrip(DropFirst(t, Len(FencePython)))
             ELSE IF StartsWith(t, Fence)
                  THEN LStrip(DropFirst(t, Len(Fence)))
                  ELSE t
    IN  IF EndsWith(a, Fence) THEN RStrip(DropLast(a, 3)) ELSE a

\* bool(preview): a list is true when it has items, the 2-tuple always
Truthy(p) == Len(p.items) > 0

\* PreviewStr that serialises whatever the preview is
PreviewStrAlwaysJson(p) == [kind |-> "json", value |-> p.items]

\* json.dumps(preview, default=str) if preview else "No preview available"
PreviewStr(p) ==
    IF Truthy(p)
    THEN [kind |-> "json", value |-> p.items]
    ELSE [kind |-> "text", value |-> NoPreview]

----------------------------------------------------------------------------
(* main.py : POST /generate-code *)

\* HTTPException(status_code=500, detail=f"Code generation error: {str(e)}")
CodeGenError(m) == [code |-> 500, body |-> [detail |-> CodeGenErrorPrefix \o m]]

\* the request arrives; first validate_and_fetch_schema(source_type, ...)
ReceiveGenerate ==
    /\ pc \in {"idle", "done"}
    /\ \E s \in GenDbTypes, t \in GenDbTypes :
          /\ target_type' = t
          /\ CallPreviewer(s, "gen_target")
    /\ calls' = [preview |-> 1, generator |-> 0, llm |-> 0]
    /\ order' = <<"preview_source">>
    /\ llm' = NoLlm /\ prompt' = NoPrompt /\ src' = NoSrc
    /\ text' = <<>> /\ stripped' = <<>>
    /\ resp' = NoResp
    /\ UNCHANGED <<env, LANGCHAIN_AVAILABLE, USE_OPENAI, exeVars>>

\* src_status, src_preview are bound; validate_and_fetch_schema(target_type, ...)
PreviewTarget ==
    /\ pc = "gen_target"
    /\ src' = [status |-> status, preview |-> preview]
    /\ CallPreviewer(target_type, "gen_generate")
    /\ calls' = [calls EXCEPT !.preview = @ + 1]
    /\ order' = Append(order, "preview_target")
    /\ UNCHANGED <<env, LANGCHAIN_AVAILABLE, USE_OPENAI, llm, prompt,
                   target_type, text, stripped, exeVars, resp>>

\* generate_etl_code is entered: llm = get_llm(), then the prompt is built
Generate ==
    /\ pc = "gen_generate"
    /\ calls' = [calls EXCEPT !.generator = @ + 1]
    /\ order' = Append(order, "generate")
    /\ llm' = get_llm
    /\ IF get_llm.ok
       THEN /\ prompt' = [built |-> TRUE,
                          src |-> PreviewStr(src.preview),
                          tgt |-> PreviewStr(preview)]
            /\ pc' = "gen_invoke"
            /\ UNCHANGED resp
       ELSE /\ resp' = CodeGenError(get_llm.msg)
            /\ pc' = "done"
            /\ UNCHANGED prompt
    /\ UNCHANGED <<env, LANGCHAIN_AVAILABLE, USE_OPENAI, src, target_type,
                   text, stripped, valVars, exeVars>>

\* llm.invoke([HumanMessage(content=prompt)]), strip_code_block, {"code": ...}
Invoke ==
    /\ pc = "gen_invoke"
    /\ calls' = [calls EXCEPT !.llm = @ + 1]
    /\ order' = Append(order, "llm")
    /\ \/ \E t \in LlmTexts :
             /\ text' = t
             /\ stripped' = <<strip_code_block(t)>>
             /\ resp' = [code |-> 200, body |-> [code |-> strip_code_block(t)]]
       \/ \E e \in ExcMsgs :
             /\ resp' = CodeGenError(e)
             /\ UNCHANGED <<text, stripped>>
    /\ pc' = "done"
    /\ UNCHANGED <<env, LANGCHAIN_AVAILABLE, USE_OPENAI, llm, prompt, src,
                   target_type, valVars, exeVars>>

----------------------------------------------------------------------------
(* strip_code_block applied to a text, and again to its result *)

StripOnce ==
    /\ pc = "strip_input"
    /\ stripped' = <<strip_code_block(text)>>
    /\ pc' = "strip_again"
    /\ UNCHANGED <<env, LANGCHAIN_AVAILABLE, USE_OPENAI, llm, prompt, calls,
                   order, src, target_type, text, valVars, exeVars, resp>>

StripAgain ==
    /\ pc = "strip_again"
    /\ stripped' = Append(stripped, strip_code_block(stripped[1]))
    /\ pc' = "strip_done"
    /\ UNCHANGED <<env, LANGCHAIN_AVAILABLE, USE_OPENAI, llm, prompt, calls,
                   order, src, target_type, text, valVars, exeVars, resp>>

----------------------------------------------------------------------------
(* Specifications *)

DefaultEnv == [google |-> TRUE, openai |-> FALSE,
               GOOGLE_API_KEY |-> TRUE, OPENAI_API_KEY |-> FALSE]

InitExecute ==
    /\ pc = "idle"
    /\ ValIdle /\ ExeIdle /\ GenIdle
    /\ env = DefaultEnv
    /\ LANGCHAIN_AVAILABLE = "True" /\ USE_OPENAI = "undefined"
    /\ resp = NoResp

NextExecute ==
    \/ ReceiveExecute
    \/ CreateTemp
    \/ WriteCode
    \/ Spawn
    \/ Wait
    \/ Unlink
    \/ FilterReturn
    \/ RespondExecute

SpecExecute == InitExecute /\ [][NextExecute]_vars

InitValidate == InitExecute

NextValidate ==
    \/ ReceiveValidate
    \/ Dispatch
    \/ Connect
    \/ Query
    \/ Columns
    \/ Close
    \/ Format
    \/ RespondValidate

SpecValidate == InitValidate /\ [][NextValidate]_vars

InitGenerate ==
    /\ pc = "boot"
    /\ ValIdle /\ ExeIdle /\ GenIdle
    /\ env \in Envs
    /\ LANGCHAIN_AVAILABLE = "undefined" /\ USE_OPENAI = "undefined"
    /\ resp = NoResp

NextGenerate ==
    \/ ImportGenerator
    \/ ReceiveGenerate
    \/ Dispatch
    \/ Connect
    \/ Query
    \/ Columns
    \/ Close
    \/ Format
    \/ PreviewTarget
    \/ Generate
    \/ Invoke

SpecGenerate == InitGenerate /\ [][NextGenerate]_vars

InitStrip ==
    /\ pc = "strip_input"
    /\ ValIdle /\ ExeIdle
    /\ llm = NoLlm /\ prompt = NoPrompt /\ calls = NoCalls
    /\ order = <<>> /\ src = NoSrc /\ target_type = <<>>
    /\ text \in StripTexts /\ stripped = <<>>
    /\ env = DefaultEnv
    /\ LANGCHAIN_AVAILABLE = "True" /\ USE_OPENAI = "undefined"
    /\ resp = NoResp

NextStrip ==
    \/ StripOnce
    \/ StripAgain

SpecStrip == InitStrip /\ [][NextStrip]_vars

----------------------------------------------------------------------------
(* Properties of POST /execute-code and run_etl_script *)

Has(seq, x) == \E i \in 1..Len(seq) : seq[i] = x
Pos(seq, x) == CHOOSE i \in 1..Len(seq) : seq[i] = x

\* "error" occurs in s when letter case is ignored, stated letter by letter
HasErrorAnyCase(s) ==
    \E i \in 1..(Len(s) - 4) :
        /\ s[i] \in {"e", "E"}
        /\ s[i + 1] \in {"r", "R"}
        /\ s[i + 2] \in {"r", "R"}
        /\ s[i + 3] \in {"o", "O"}
        /\ s[i + 4] \in {"r", "R"}

\* C3: the success flag of /execute-code is true exactly when the stderr
\* returned by run_etl_script is empty or holds no "error" in any letter
\* case; stdout has no part in it, and the response carries the very
\* stdout and stderr the flag was computed from.
C3_SuccessFromStderr ==
    (pc = "done" /\ resp.code = 200) =>
        /\ resp.body.success = (ret.stderr = <<>> \/ ~HasErrorAnyCase(ret.stderr))
        /\ resp.body.stdout = ret.stdout
        /\ resp.body.stderr = ret.stderr

\* a success response whose stdout holds "Error" and whose stderr is not empty
C3_Witness ==
    /\ pc = "done" /\ resp.code = 200
    /\ Contains(resp.body.stdout, ErrorWord)
    /\ resp.body.stderr # <<>>
    /\ resp.body.success = TRUE

\* the lines of a list that do not hold the marker, in their order
NonMarkerLines(lines) ==
    LET idx == {i \in 1..Len(lines) : ~Contains(lines[i], NumpyMarker)}
        nth(k) == CHOOSE i \in idx : Cardinality({j \in idx : j < i}) = k - 1
    IN  [k \in 1..Cardinality(idx) |-> lines[nth(k)]]

\* a list of lines after the whole text was trimmed: blank lines at either
\* end are gone, the first line lost its leading and the last its trailing
\* whitespace
TrimmedLines(lines) ==
    LET black == {i \in 1..Len(lines) : Strip(lines[i]) # <<>>}
        lo == CHOOSE i \in black : \A j \in black : i <= j
        hi == CHOOSE i \in black : \A j \in black : i >= j
        left(k, l) == IF k = lo THEN LStrip(l) ELSE l
        right(k, l) == IF k = hi THEN RStrip(l) ELSE l
    IN  IF black = {} THEN <<>>
        ELSE [k \in 1..(hi - lo + 1) |->
                 right(lo + k - 1, left(lo + k - 1, lines[lo + k - 1]))]

\* C4 as stated: the returned stderr, line by line, is the captured stderr
\* with the marker lines removed and every other line verbatim, in order.
C4_Original ==
    (pc = "exe_returned" /\ ~caught) =>
        SplitLines(ret.stderr) = NonMarkerLines(SplitLines(child.stderr))

\* C4 amended: the returned stderr, line by line, is the captured stderr
\* with the marker lines removed and the other lines in order, verbatim
\* except for the trimming of the whole text (blank lines at either end
\* dropped, the first line left-trimmed, the last line right-trimmed).
C4_FilteredThenTrimmed ==
    (pc = "exe_returned" /\ ~caught) =>
        SplitLines(ret.stderr) =
            TrimmedLines(NonMarkerLines(SplitLines(child.stderr)))

\* of two captured lines the marker line was removed and the other returned
C4_Witness ==
    /\ pc = "exe_returned" /\ ~caught
    /\ Len(SplitLines(child.stderr)) >= 2
    /\ \E i \in 1..Len(SplitLines(child.stderr)) :
           Contains(SplitLines(child.stderr)[i], NumpyMarker)
    /\ Len(SplitLines(ret.stderr)) >= 1

\* C6: when creating the file, spawning or waiting raises, run_etl_script
\* still returns: stdout is empty, stderr begins with the error marker, and
\* /execute-code answers 200 with success = false; a child that exits
\* non-zero never enters that path, its stderr is returned as text.
C6_SpawnErrorsRecovered ==
    /\ resp.code \in {0, 200}
    /\ (pc \in {"exe_returned", "done"} /\ caught) =>
          /\ ret.stdout = <<>>
          /\ StartsWith(ret.stderr, ScriptErrorMarker)
    /\ (pc = "done" /\ caught) =>
          /\ resp.code = 200
          /\ resp.body.success = FALSE
          /\ StartsWith(resp.body.stderr, ScriptErrorMarker)
    /\ (pc \in {"exe_unlink", "exe_filter", "exe_returned", "done"}
            /\ child.returncode # 0) =>
          /\ ~caught
          /\ (pc \in {"exe_returned", "done"} =>
                ret.stderr = FilterStderr(child.stderr))

\* the spawn raised and the request was answered with success = false
C6_Witness ==
    /\ pc = "done" /\ caught
    /\ Has(events, "create") /\ ~Has(events, "spawn")
    /\ resp.code = 200 /\ resp.body.success = FALSE

\* C7 as stated: create, write, close, spawn, exit, unlink happen in this
\* order, the file is never deleted before the child exited, and whenever
\* run_etl_script has returned, deletion of the file it created was
\* attempted.
C7_Original ==
    /\ \A i, j \in 1..Len(events) :
          (i < j) =>
             <<events[i], events[j]>> \in
                 {<<"create", "write">>, <<"create", "close">>,
                  <<"create", "spawn">>, <<"create", "exit">>,
                  <<"create", "unlink">>, <<"write", "close">>,
                  <<"write", "spawn">>, <<"write", "exit">>,
                  <<"write", "unlink">>, <<"close", "spawn">>,
                  <<"close", "exit">>, <<"close", "unlink">>,
                  <<"spawn", "exit">>, <<"spawn", "unlink">>,
                  <<"exit", "unlink">>}
    /\ (tempFile = "deleted") => Has(events, "exit")
    /\ (pc \in {"exe_returned", "done"} /\ Has(events, "create")) =>
          Has(events, "unlink")

\* the part of C7 the code does keep: the order of the events, and no
\* deletion before the child exited
C7_OrderKept ==
    /\ \A i, j \in 1..Len(events) :
          (i < j /\ events[j] = "unlink") => events[i] # "unlink"
    /\ Has(events, "unlink") =>
          /\ Has(events, "exit") /\ Pos(events, "exit") < Pos(events, "unlink")
          /\ Has(events, "spawn") /\ Pos(events, "spawn") < Pos(events, "exit")
          /\ Has(events, "close") /\ Pos(events, "close") < Pos(events, "spawn")
          /\ Has(events, "write") /\ Pos(events, "write") < Pos(events, "close")
          /\ Has(events, "create") /\ Pos(events, "create") < Pos(events, "write")
    /\ (tempFile = "deleted") => Has(events, "exit")

----------------------------------------------------------------------------
(* Properties of the previewer and POST /validate *)

\* the db_type is one of the five tags, letter for letter
ExactlySupported(t) ==
    \E u \in {PostgreSQL, MySQL, MSSQL, MongoDB, SQLite} :
        Len(t) = Len(u) /\ \A i \in 1..Len(u) : t[i] = u[i]

\* validate_db_connection has returned to validate_and_fetch_schema
VdcReturned == pc \in {"vfs_format", "val_respond", "done"}

\* validate_and_fetch_schema has returned to the /validate handler
VfsReturned == pc \in {"val_respond", "done"}

\* C1 as stated: for a supported db_type, when the connect and the query
\* steps both succeed the response is success = true with the message
\* "Connected to <db_type> successfully!"; when either raises, the message
\* starts with "Error:", the preview is empty and success = false; success
\* is true exactly when the message does not start with "Error"; and no
\* other status message occurs.
C1_Original ==
    (pc = "done" /\ resp.code = 200 /\ ExactlySupported(db_type)) =>
        /\ vdc.success =>
              /\ resp.body.success = TRUE
              /\ resp.body.message = ConnectedTo \o db_type \o Successfully
        /\ ~vdc.success =>
              /\ StartsWith(resp.body.message, <<"E", "r", "r", "o", "r", ":">>)
              /\ resp.body.preview.items = <<>>
              /\ resp.body.success = FALSE
        /\ resp.body.success = ~StartsWith(resp.body.message, ErrorWord)
        /\ resp.body.message # CouldntFetch

\* C2: for a db_type that is not letter for letter one of the five tags,
\* validate_db_connection returns (False, "Unsupported database type:
\* <type>") having opened no connection and made no driver call, and the
\* previewer hands back that message behind "Error: " with an empty preview.
C2_UnsupportedNoConnection ==
    ~ExactlySupported(db_type) =>
        /\ opened = 0 /\ netAccess = 0 /\ conn = "none"
        /\ VdcReturned =>
              /\ vdc.success = FALSE
              /\ vdc.msg = UnsupportedPrefix \o db_type
        /\ VfsReturned =>
              /\ status = ErrorPrefix \o UnsupportedPrefix \o db_type
              /\ preview.kind = "list" /\ preview.items = <<>>
        /\ (pc = "done" /\ resp.code = 200) => resp.body.success = FALSE

\* "sqlite" in lower case was refused without any driver call
C2_Witness ==
    /\ pc = "done" /\ resp.code = 200
    /\ db_type = <<"s", "q", "l", "i", "t", "e">>
    /\ resp.body.success = FALSE
    /\ netAccess = 0

\* C10 as stated: a previewer call opens at most one connection, and once
\* validate_db_connection has returned that connection is closed.
C10_Original ==
    /\ opened <= 1
    /\ VdcReturned => conn # "open"

\* the part of C10 the code does keep: at most one connection per call, and
\* it is closed whenever every step succeeded
C10_ClosedOnSuccess ==
    /\ opened <= 1
    /\ (VdcReturned /\ vdc.success) => (conn = "closed" /\ opened = 1)

----------------------------------------------------------------------------
(* Properties of strip_code_block *)

\* the fence a text starts with: ```python, bare ```, or none
LeadingFence(t) ==
    IF StartsWith(t, FencePython) THEN FencePython
    ELSE IF StartsWith(t, Fence) THEN Fence
    ELSE <<>>

\* the text between a leading fence of length n and a trailing ```
Between(t, n) == DropLast(DropFirst(t, n), Len(Fence))

\* C5 as stated: for every text, stripping twice gives what stripping once
\* gives; a text that starts with a fence and ends with ``` loses exactly
\* that one leading and that one trailing fence; a text that neither starts
\* nor ends with a fence is returned unchanged.
C5_Original ==
    (pc = "strip_done") =>
        /\ stripped[2] = stripped[1]
        /\ (LeadingFence(text) # <<>> /\ EndsWith(text, Fence)) =>
              stripped[1] = Strip(Between(text, Len(LeadingFence(text))))
        /\ (LeadingFence(text) = <<>> /\ ~EndsWith(text, Fence)) =>
              stripped[1] = text

\* C5 amended: stripping twice gives what stripping once gives whenever the
\* first result neither starts nor ends with ``` (as for every already-clean
\* text); a text that starts with a fence and ends with ```, and is long
\* enough to hold both, loses exactly that leading and that trailing fence
\* (and the whitespace next to them); a text that neither starts nor ends
\* with a fence is returned unchanged.
C5_StripCodeBlock ==
    (pc = "strip_done") =>
        /\ (~StartsWith(stripped[1], Fence) /\ ~EndsWith(stripped[1], Fence)) =>
              stripped[2] = stripped[1]
        /\ (/\ LeadingFence(text) # <<>>
            /\ EndsWith(text, Fence)
            /\ Len(text) >= Len(LeadingFence(text)) + Len(Fence)) =>
              stripped[1] = Strip(Between(text, Len(LeadingFence(text))))
        /\ (LeadingFence(text) = <<>> /\ ~EndsWith(text, Fence)) =>
              stripped[1] = text

\* a fenced block ```python ... ``` was reduced to its body, and a second
\* pass left the body alone
C5_Witness ==
    /\ pc = "strip_done"
    /\ text = FencePython \o <<"\n", "x">> \o Fence
    /\ stripped = << <<"x">>, <<"x">> >>

----------------------------------------------------------------------------
(* Properties of the generator and POST /generate-code *)

GenerateEntered == pc \in {"gen_invoke", "done"} /\ calls.generator = 1

\* C8 as stated: get_llm gives the OpenAI backend when only the OpenAI
\* client can be imported and OPENAI_API_KEY is set, the Google backend when
\* the Google client can be imported and GOOGLE_API_KEY is set, an
\* ImportError when neither client can be imported, and a ValueError naming
\* the selected provider's key when that key is missing.
C8_Original ==
    GenerateEntered =>
        /\ (~env.google /\ env.openai /\ env.OPENAI_API_KEY) =>
              (llm.ok /\ llm.backend = "openai")
        /\ (env.google /\ env.GOOGLE_API_KEY) =>
              (llm.ok /\ llm.backend = "google")
        /\ (~env.google /\ ~env.openai) => llm.exc = "ImportError"
        /\ (env.google /\ ~env.GOOGLE_API_KEY) =>
              (llm.exc = "ValueError" /\ llm.msg = GoogleKeyMsg)
        /\ (~env.google /\ env.openai /\ ~env.OPENAI_API_KEY) =>
              (llm.exc = "ValueError" /\ llm.msg = OpenaiKeyMsg)

\* what get_llm does instead: the OpenAI backend is never selected
C8_OpenaiNeverSelected ==
    GenerateEntered => llm.backend # "openai"

SequenceOfCalls ==
    <<"preview_source", "preview_target", "generate", "llm">>

\* C9: a /generate-code request calls the previewer for the source, then
\* for the target, then the generator once, with at most one LLM call; a
\* failed preview does not stop the request, and that side of the prompt
\* reads "No preview available"; an exception of the generator is not
\* retried and is answered with an error carrying str(exception).
C9_GenerateSequence ==
    /\ Len(order) <= Len(SequenceOfCalls)
    /\ \A i \in 1..Len(order) : order[i] = SequenceOfCalls[i]
    /\ (pc = "done" /\ resp.code # 0) =>
          /\ Len(order) >= 3
          /\ calls.preview = 2 /\ calls.generator = 1 /\ calls.llm <= 1
          /\ (prompt.built /\ StartsWith(src.status, ErrorWord)) =>
                (prompt.src.kind = "text" /\ prompt.src.value = NoPreview)
          /\ (prompt.built /\ StartsWith(status, ErrorWord)) =>
                (prompt.tgt.kind = "text" /\ prompt.tgt.value = NoPreview)
          /\ resp.code \in {200, 500}
          /\ (resp.code = 200) => (llm.ok /\ calls.llm = 1)
          /\ (resp.code = 500) =>
                /\ StartsWith(resp.body.detail, CodeGenErrorPrefix)
                /\ IF llm.ok
                   THEN DropFirst(resp.body.detail, Len(CodeGenErrorPrefix))
                            \in ExcMsgs
                   ELSE /\ calls.llm = 0
                        /\ DropFirst(resp.body.detail, Len(CodeGenErrorPrefix))
                               = llm.msg

\* the source preview failed, the generator ran all the same, and the code
\* was returned
C9_Witness ==
    /\ pc = "done" /\ resp.code = 200
    /\ StartsWith(src.status, ErrorWord)
    /\ prompt.src.kind = "text"
    /\ order = SequenceOfCalls

====
